---- MODULE Spec2Model ----
(***************************************************************************)
(* Client-side request/session layer of Career Compass:                    *)
(*   AuthService   (persisted token / user / refresh token),               *)
(*   AppController (session state, inactivity timer, theme),               *)
(*   BaseApiService.request (fetch raced against a timeout timer).         *)
(* Time is in milliseconds.  localStorage values are strings; getItem of an *)
(* absent key yields null; setItem converts its value to a string, so the  *)
(* JS value undefined is stored as the text "undefined".                   *)
(***************************************************************************)
EXTENDS Integers, Sequences, FiniteSets, TLC

\* the JS values null and undefined (distinct from any stored text)
Null == "<null>"
Undefined == "<undefined>"
SyntaxError == "SyntaxError"

\* values the backend stub can deliver
Tokens == {"T1", "T2"}
RefreshTokens == {"R1", "R2"}
Users == {"u1", "u2"}

\* the three fixed localStorage keys
TOKEN_KEY == "career_compass_token"
USER_KEY == "career_compass_user"
REFRESH_TOKEN_KEY == "career_compass_refresh_token"
StorageKeys == {TOKEN_KEY, USER_KEY, REFRESH_TOKEN_KEY}

\* theme preference values
Themes == {"light", "dark", "system"}

\* inactivity window of the activity timer (setTimeout delay), in ms
InactivityMs == 30 * 60 * 1000

\* default argument of isSessionActive, in minutes
DefaultMaxInactiveMinutes == 30

\* arguments tried for isSessionActive(maxInactiveMinutes)
QueryMinutes == {15, 30, 45}

\* the clock advances in steps of TickMs up to MaxTicks * TickMs
TickMs == 900000
MaxTicks == 3
MaxNow == MaxTicks * TickMs

VARIABLES
  store,         \* localStorage restricted to the three session keys
  pc,            \* position of every asynchronous operation
  ev,            \* what the step just taken did (operation, result, request issued)
  appState,      \* AppController.appState
  activityTimer, \* AppController.activityTimer: handle of the last timer set, 0 for null
  timers,        \* pending setTimeout timers (each named by its deadline)
  dark,          \* document.documentElement has class "dark"
  prefersDark,   \* matchMedia('(prefers-color-scheme: dark)').matches
  now,           \* the clock, ms since the page was loaded
  lastSignal,    \* history: time of the last interaction signal, -1 if none
  authSince,     \* history: time appState.isAuthenticated last became true, -1 if false
  call,          \* one call of BaseApiService.request and its race
  retry,         \* one call of BaseController.createRetryOperation
  form,          \* the signup form: what was submitted and what was sent
  snap,          \* the last snapshot a collaborator got from getAppState
  cleaned        \* history: AppController.cleanup() has been called

vars == <<store, pc, ev, appState, activityTimer, timers, dark, prefersDark, now,
          lastSignal, authSince, call, retry, form, snap, cleaned>>

\* AppController's state and the history kept about it
appVars == <<appState, activityTimer, timers, dark, prefersDark, lastSignal, authSince>>

----------------------------------------------------------------------------
\* JSON.stringify on a user record: undefined stays undefined
JSONstringify(v) ==
  CASE v = "u1" -> "{id:u1}"
    [] v = "u2" -> "{id:u2}"
    [] OTHER -> Undefined

\* JSON.parse on a stored text: anything that is not JSON throws SyntaxError
JSONparse(s) ==
  CASE s = "{id:u1}" -> "u1"
    [] s = "{id:u2}" -> "u2"
    [] OTHER -> SyntaxError

\* String(v) for the values that reach localStorage
String(v) ==
  CASE v = Undefined -> "undefined"
    [] v = Null -> "null"
    [] OTHER -> v

\* localStorage.setItem(k, v): the value is converted to a string
setItem(s, k, v) == [s EXCEPT ![k] = String(v)]

removeItem(s, k) == [s EXCEPT ![k] = Null]

getItem(s, k) == s[k]

\* JS truthiness of a value read from a response or from storage
Truthy(v) == v # Null /\ v # Undefined /\ v # ""

getToken(s) == getItem(s, TOKEN_KEY)

\* getRefreshToken reading the token key
getRefreshToken_WrongKey(s) == getItem(s, TOKEN_KEY)

getRefreshToken(s) == getItem(s, REFRESH_TOKEN_KEY)

\* getStoredUser: userData ? JSON.parse(userData) : null
getStoredUser(s) ==
  IF getItem(s, USER_KEY) # Null /\ getItem(s, USER_KEY) # ""
  THEN JSONparse(getItem(s, USER_KEY))
  ELSE Null

\* isAuthenticated() throws when the stored user text does not parse
isAuthenticatedThrows(s) == getStoredUser(s) = SyntaxError

\* isAuthenticated: !!(token && user)
isAuthenticated(s) ==
  /\ getToken(s) # Null /\ getToken(s) # ""
  /\ getStoredUser(s) # Null
  /\ ~isAuthenticatedThrows(s)

\* setAuthData that forgets to store the user
setAuthData_NoUser(s, user, token, refreshToken) ==
  LET s1 == setItem(s, TOKEN_KEY, token)
  IN IF Truthy(refreshToken) THEN setItem(s1, REFRESH_TOKEN_KEY, refreshToken) ELSE s1

setAuthData(s, user, token, refreshToken) ==
  LET s1 == setItem(s, TOKEN_KEY, token)
      s2 == setItem(s1, USER_KEY, JSONstringify(user))
  IN IF Truthy(refreshToken) THEN setItem(s2, REFRESH_TOKEN_KEY, refreshToken) ELSE s2

\* clearAuthData that leaves the refresh token behind
clearAuthData_KeepRefresh(s) == removeItem(removeItem(s, TOKEN_KEY), USER_KEY)

clearAuthData(s) ==
  removeItem(removeItem(removeItem(s, TOKEN_KEY), USER_KEY), REFRESH_TOKEN_KEY)

\* header sets are functions from header names to a value, Null when absent
HeaderNames == {"Content-Type", "Accept", "Authorization", "X-Custom"}

NoHeaders == [h \in HeaderNames |-> Null]

\* the template string `Bearer ${token}`
Bearer(token) ==
  CASE token = "T1" -> "Bearer T1"
    [] token = "T2" -> "Bearer T2"
    [] OTHER -> "Bearer undefined"

\* getAuthHeaders: token ? { Authorization: `Bearer ${token}` } : {}
getAuthHeaders(s) ==
  IF Truthy(getToken(s))
  THEN [NoHeaders EXCEPT !["Authorization"] = Bearer(getToken(s))]
  ELSE NoHeaders

----------------------------------------------------------------------------
\* What a call of BaseApiService.post/get delivers to its caller: a parsed
\* envelope (2xx) or a thrown ApiError (status 0 network, 408 timeout, else HTTP).
Resp(kind, status, success, hasData, user, token, refreshToken, prefs) ==
  [kind |-> kind, status |-> status, success |-> success, hasData |-> hasData,
   user |-> user, token |-> token, refreshToken |-> refreshToken, prefs |-> prefs]

ErrorStatuses == {0, 408, 401, 500}

Thrown == {Resp("throw", st, FALSE, FALSE, Undefined, Undefined, Undefined, Undefined) :
             st \in ErrorStatuses}

\* 2xx envelopes without data: {success: false, message} and {success: true}
DatalessEnvelopes ==
  {Resp("envelope", 200, FALSE, FALSE, Undefined, Undefined, Undefined, Undefined),
   Resp("envelope", 200, TRUE, FALSE, Undefined, Undefined, Undefined, Undefined)}

\* a 2xx envelope that reports failure and still carries data
FailureWithData ==
  {Resp("envelope", 200, FALSE, TRUE, "u1", "T1", "R1", Undefined)}

\* no response: the step settled no request
NoResp == Resp("none", 0, FALSE, FALSE, Undefined, Undefined, Undefined, Undefined)

\* POST /auth/login and /auth/signup: data {user, token, refreshToken?}
AuthEnvelopes ==
  {Resp("envelope", 200, TRUE, TRUE, u, t, r, Undefined) :
     u \in Users \cup {Undefined}, t \in Tokens \cup {Undefined},
     r \in RefreshTokens \cup {Undefined}}

AuthOutcomes == Thrown \cup DatalessEnvelopes \cup FailureWithData \cup AuthEnvelopes

\* POST /auth/refresh: data {token, refreshToken?}
RefreshEnvelopes ==
  {Resp("envelope", 200, TRUE, TRUE, Undefined, t, r, Undefined) :
     t \in Tokens \cup {Undefined}, r \in RefreshTokens \cup {Undefined}}

RefreshOutcomes == Thrown \cup DatalessEnvelopes \cup FailureWithData \cup RefreshEnvelopes

\* POST /auth/logout: the result is ignored
LogoutOutcomes == Thrown \cup DatalessEnvelopes

\* GET /auth/profile: data {user}
ProfileOutcomes ==
  Thrown \cup DatalessEnvelopes \cup
  {Resp("envelope", 200, TRUE, TRUE, u, Undefined, Undefined, Undefined) :
     u \in Users \cup {Undefined}}

\* GET /user/preferences: data is the preferences object (named by its theme)
PrefsOutcomes ==
  Thrown \cup DatalessEnvelopes \cup
  {Resp("envelope", 200, TRUE, TRUE, Undefined, Undefined, Undefined, th) : th \in Themes}

\* the success test without the success flag
SuccessWithData_DataOnly(o) == o.kind = "envelope" /\ o.hasData

\* response.success && response.data
SuccessWithData(o) == o.kind = "envelope" /\ o.success /\ o.hasData

Ops == {"login", "signup", "logout", "refresh", "initializeApp",
        "handleLoginSuccess", "handleLogout", "updateUserPreferences"}

\* The record of a step: the operation, its result ("pending" while it awaits a
\* request), the endpoint of the request the step issued, the user and token an
\* AuthResponse returned (for handleLogout: the user that was logged out), the
\* toasts shown, the argument of a query and the response the step consumed.
Ev(op, result, request, user, token, toasts) ==
  [op |-> op, result |-> result, request |-> request, user |-> user,
   token |-> token, toasts |-> toasts, arg |-> 0, resp |-> NoResp]

Idle == [op \in Ops |-> "idle"]

\* no request call has been made
NoCall == [stage |-> "none"]

\* createRetryOperation has not been called
NoRetry == [stage |-> "none"]

\* the signup form has not been submitted
NoForm == [stage |-> "none"]

\* getAppState has not been called
NoSnapshot == [taken |-> FALSE]

\* at most MaxInFlight asynchronous operations are awaited at the same time
MaxInFlight == 2

InFlight == Cardinality({op \in Ops : pc[op] # "idle"})

MayStart(op) == pc[op] = "idle" /\ InFlight < MaxInFlight

\* a session persisted by an earlier page load, or none
PersistedStores ==
  {[k \in StorageKeys |-> Null]} \cup
  {setAuthData([k \in StorageKeys |-> Null], u, t, r) :
     u \in Users, t \in Tokens, r \in RefreshTokens \cup {Undefined}}

\* AppController constructor: the initial unauthenticated state
InitialAppState ==
  [isInitialized |-> FALSE, isAuthenticated |-> FALSE, currentUser |-> Null,
   userPreferences |-> Null, theme |-> "system", isOnline |-> TRUE, lastActivity |-> 0]

----------------------------------------------------------------------------
\* AuthService (src/unnamed/part_005)

\* login / signup up to the await of this.post(endpoint, ..., {requireAuth: false})
AuthStart(op, endpoint) ==
  /\ MayStart(op)
  /\ pc' = [pc EXCEPT ![op] = "await"]
  /\ ev' = Ev(op, "pending", endpoint, Undefined, Undefined, <<>>)
  /\ UNCHANGED <<store, now>>
  /\ UNCHANGED <<appVars, call, retry, form, snap, cleaned>>

\* login / signup from the moment the post settles with outcome o
AuthReturn(op, o) ==
  /\ pc[op] = "await"
  /\ pc' = [pc EXCEPT ![op] = "idle"]
  /\ IF SuccessWithData(o)
     THEN /\ store' = setAuthData(store, o.user, o.token, o.refreshToken)
          /\ ev' = [Ev(op, "success", Null, o.user, o.token, <<>>) EXCEPT !.resp = o]
     ELSE /\ store' = store
          /\ ev' = [Ev(op, "failure", Null, Undefined, Undefined, <<>>) EXCEPT !.resp = o]
  /\ UNCHANGED now
  /\ UNCHANGED <<appVars, call, retry, form, snap, cleaned>>

LoginStart == AuthStart("login", "/auth/login")

LoginReturn == \E o \in AuthOutcomes : AuthReturn("login", o)

SignupStart == AuthStart("signup", "/auth/signup")

SignupReturn == \E o \in AuthOutcomes : AuthReturn("signup", o)

\* AuthService.logout called from the navigation bar: with a token it awaits
\* the POST, without one it runs straight into the finally block
LogoutStart ==
  /\ MayStart("logout")
  /\ IF Truthy(getToken(store))
     THEN /\ pc' = [pc EXCEPT !["logout"] = "await"]
          /\ ev' = Ev("logout", "pending", "/auth/logout", Undefined, Undefined, <<>>)
          /\ store' = store
     ELSE /\ pc' = pc
          /\ ev' = Ev("logout", "void", Null, Undefined, Undefined, <<>>)
          /\ store' = clearAuthData(store)
  /\ UNCHANGED now
  /\ UNCHANGED <<appVars, call, retry, form, snap, cleaned>>

\* the POST settled (any way): catch logs, finally clears
LogoutReturn ==
  /\ pc["logout"] = "await"
  /\ \E o \in LogoutOutcomes :
       /\ pc' = [pc EXCEPT !["logout"] = "idle"]
       /\ store' = clearAuthData(store)
       /\ ev' = [Ev("logout", "void", Null, Undefined, Undefined, <<>>) EXCEPT !.resp = o]
  /\ UNCHANGED now
  /\ UNCHANGED <<appVars, call, retry, form, snap, cleaned>>

\* refreshAuthToken up to the await of the POST, or its early return
RefreshStart ==
  /\ MayStart("refresh")
  /\ IF ~Truthy(getRefreshToken(store))
     THEN /\ pc' = pc
          /\ ev' = Ev("refresh", "failure", Null, Undefined, Undefined, <<>>)
     ELSE /\ pc' = [pc EXCEPT !["refresh"] = "await"]
          /\ ev' = Ev("refresh", "pending", "/auth/refresh", Undefined, Undefined, <<>>)
  /\ UNCHANGED <<store, now>>
  /\ UNCHANGED <<appVars, call, retry, form, snap, cleaned>>

\* refreshAuthToken storing its response through setAuthData
refreshStore_ViaSetAuthData(s, o) == setAuthData(s, o.user, o.token, o.refreshToken)

\* what refreshAuthToken writes when the POST delivered success and data
refreshStore(s, o) ==
  LET s1 == setItem(s, TOKEN_KEY, o.token)
  IN IF Truthy(o.refreshToken) THEN setItem(s1, REFRESH_TOKEN_KEY, o.refreshToken) ELSE s1

RefreshReturn ==
  /\ pc["refresh"] = "await"
  /\ \E o \in RefreshOutcomes :
       /\ pc' = [pc EXCEPT !["refresh"] = "idle"]
       /\ IF SuccessWithData(o)
          THEN /\ store' = refreshStore(store, o)
               /\ ev' = [Ev("refresh", "success", Null, Undefined, o.token, <<>>)
                           EXCEPT !.resp = o]
          ELSE /\ store' = store
               /\ ev' = [Ev("refresh", "failure", Null, Undefined, Undefined, <<>>)
                           EXCEPT !.resp = o]
  /\ UNCHANGED now
  /\ UNCHANGED <<appVars, call, retry, form, snap, cleaned>>

----------------------------------------------------------------------------
\* AppController (src/src/components/Footer.tsx)

\* isSessionActive with an inclusive comparison
isSessionActive_Inclusive(maxInactiveMinutes) ==
  now - appState.lastActivity <= maxInactiveMinutes * 60 * 1000

\* isSessionActive(maxInactiveMinutes): inactiveTime < maxInactiveTime
isSessionActive(maxInactiveMinutes) ==
  LET inactiveTime == now - appState.lastActivity
      maxInactiveTime == maxInactiveMinutes * 60 * 1000
  IN inactiveTime < maxInactiveTime

\* applyTheme(theme): the dark class the root element ends with
applyThemeDark(theme) == IF theme = "system" THEN prefersDark ELSE theme = "dark"

\* applyTheme(theme): it also records the theme in the app state
applyTheme(a, theme) == [a EXCEPT !.theme = theme]

\* handleLogout that does not drop the preferences
clearAppState_KeepPreferences(a) ==
  [a EXCEPT !.currentUser = Null, !.isAuthenticated = FALSE, !.theme = "system"]

\* handleLogout after authService.logout() resolved: clear app state
clearAppState(a) ==
  [a EXCEPT !.currentUser = Null, !.isAuthenticated = FALSE,
            !.userPreferences = Null, !.theme = "system"]

\* AuthService.logout's finally block followed by the rest of handleLogout
FinishHandleLogout ==
  /\ store' = clearAuthData(store)
  /\ appState' = applyTheme(clearAppState(appState), "system")
  /\ dark' = applyThemeDark("system")
  /\ authSince' = -1

\* handleLogout called by a UI collaborator
HandleLogoutStart ==
  /\ MayStart("handleLogout")
  /\ IF Truthy(getToken(store))
     THEN /\ pc' = [pc EXCEPT !["handleLogout"] = "await"]
          /\ ev' = Ev("handleLogout", "pending", "/auth/logout", Undefined, Undefined, <<>>)
          /\ UNCHANGED <<store, appState, dark, authSince>>
     ELSE /\ pc' = pc
          /\ ev' = Ev("handleLogout", "void", Null, appState.currentUser, Undefined,
                      <<"Logged out successfully">>)
          /\ FinishHandleLogout
  /\ UNCHANGED <<activityTimer, timers, prefersDark, now, lastSignal, call, retry, form, snap, cleaned>>

\* the POST of a pending handleLogout settled (any way)
HandleLogoutReturn ==
  /\ pc["handleLogout"] \in {"await", "await2"}
  /\ \E o \in LogoutOutcomes :
       /\ pc' = [pc EXCEPT !["handleLogout"] = IF @ = "await2" THEN "await" ELSE "idle"]
       /\ ev' = Ev("handleLogout", "void", Null, appState.currentUser, Undefined,
                   <<"Logged out successfully">>)
       /\ FinishHandleLogout
  /\ UNCHANGED <<activityTimer, timers, prefersDark, now, lastSignal, call, retry, form, snap, cleaned>>

\* resetActivityTimer without the clearTimeout
resetActivityTimer_NoClear(ts, handle) == ts \cup {now + InactivityMs}

\* the timers a call of resetActivityTimer leaves pending: the one named by
\* this.activityTimer is cleared, a new one is set
resetActivityTimer(ts, handle) ==
  (IF handle # 0 THEN ts \ {handle} ELSE ts) \cup {now + InactivityMs}

\* updateActivity that leaves the timestamp alone
updateActivity_Stale(a) == a

\* updateActivity: what it stores as the last activity
updateActivity(a) == [a EXCEPT !.lastActivity = now]

\* the arrow function setupEventListeners registers for the activity events
registeredListener == "updateActivity@setupEventListeners"

\* the arrow function cleanup passes to removeEventListener: a new function
\* object, not the registered one
removedListener == "updateActivity@cleanup"

\* the listeners on the activity events: removeEventListener removes the
\* function it is given, if that very function is registered
activityListeners == {registeredListener} \ (IF cleaned THEN {removedListener} ELSE {})

\* cleanup(): the timer named by this.activityTimer is cleared (the handle is
\* kept), then removeEventListener is called for every activity event
Cleanup ==
  /\ timers' = IF activityTimer # 0 THEN timers \ {activityTimer} ELSE timers
  /\ cleaned' = TRUE
  /\ ev' = Ev("cleanup", "void", Null, Undefined, Undefined, <<>>)
  /\ UNCHANGED <<store, pc, now, appState, activityTimer, dark, prefersDark,
                 lastSignal, authSince>>
  /\ UNCHANGED <<call, retry, form, snap>>

\* an interaction event (mousedown, mousemove, keypress, scroll, touchstart)
\* reaches a registered listener; the step records the handle it passed to
\* clearTimeout (0: none)
Signal ==
  /\ activityListeners # {}
  /\ appState' = updateActivity(appState)
  /\ timers' = resetActivityTimer(timers, activityTimer)
  /\ activityTimer' = now + InactivityMs
  /\ lastSignal' = now
  /\ ev' = [Ev("updateActivity", "void", Null, Undefined, Undefined, <<>>)
              EXCEPT !.arg = activityTimer]
  /\ UNCHANGED <<store, pc, dark, prefersDark, now, authSince, call, retry, form, snap, cleaned>>

\* the condition under which the timer callback forces a logout
expiryDue == appState.isAuthenticated /\ ~isSessionActive(DefaultMaxInactiveMinutes)

\* a pending timer whose delay has elapsed runs its callback
TimerFire ==
  /\ \E t \in timers :
       /\ t <= now
       /\ timers' = timers \ {t}
  /\ pc["handleLogout"] # "await2"
  /\ IF expiryDue
     THEN /\ IF Truthy(getToken(store))
             THEN /\ pc' = [pc EXCEPT !["handleLogout"] =
                                         IF @ = "idle" THEN "await" ELSE "await2"]
                  /\ ev' = Ev("activityTimer", "expired", "/auth/logout", Undefined,
                              Undefined, <<"Session Expired">>)
                  /\ UNCHANGED <<store, appState, dark, authSince>>
             ELSE /\ pc' = pc
                  /\ ev' = Ev("activityTimer", "expired", Null, appState.currentUser,
                              Undefined, <<"Session Expired", "Logged out successfully">>)
                  /\ FinishHandleLogout
     ELSE /\ ev' = Ev("activityTimer", "void", Null, Undefined, Undefined, <<>>)
          /\ UNCHANGED <<store, pc, appState, dark, authSince>>
  /\ UNCHANGED <<activityTimer, prefersDark, now, lastSignal, call, retry, form, snap, cleaned>>

\* a caller asks isSessionActive(m)
IsSessionActiveCall ==
  /\ \E m \in QueryMinutes :
       ev' = [Ev("isSessionActive", IF isSessionActive(m) THEN "true" ELSE "false",
                 Null, Undefined, Undefined, <<>>) EXCEPT !.arg = m]
  /\ UNCHANGED <<store, pc, now>>
  /\ UNCHANGED <<appVars, call, retry, form, snap, cleaned>>

\* handleLoginSuccess(user), called by the login flow with the user that
\* login/signup just returned, up to the await of getUserPreferences()
HandleLoginSuccessStart ==
  /\ MayStart("handleLoginSuccess")
  /\ ev.op \in {"login", "signup"} /\ ev.result = "success" /\ ev.user \in Users
  /\ appState' = [appState EXCEPT !.currentUser = ev.user, !.isAuthenticated = TRUE,
                                   !.lastActivity = now]
  /\ authSince' = IF appState.isAuthenticated THEN authSince ELSE now
  /\ pc' = [pc EXCEPT !["handleLoginSuccess"] = "await"]
  /\ ev' = Ev("handleLoginSuccess", "pending", "/user/preferences", Undefined, Undefined, <<>>)
  /\ UNCHANGED <<store, activityTimer, timers, dark, prefersDark, now, lastSignal, call, retry, form, snap, cleaned>>

\* getUserPreferences settled with outcome o
HandleLoginSuccessReturn ==
  /\ pc["handleLoginSuccess"] = "await"
  /\ \E o \in PrefsOutcomes :
       IF SuccessWithData(o)
       THEN /\ appState' = applyTheme([appState EXCEPT !.userPreferences = o.prefs], o.prefs)
            /\ dark' = applyThemeDark(o.prefs)
       ELSE UNCHANGED <<appState, dark>>
  /\ pc' = [pc EXCEPT !["handleLoginSuccess"] = "idle"]
  /\ ev' = Ev("handleLoginSuccess", "void", Null, Undefined, Undefined, <<"Welcome back!">>)
  /\ UNCHANGED <<store, activityTimer, timers, prefersDark, now, lastSignal, authSince, call, retry, form, snap, cleaned>>

\* the tail of initializeApp: apply the current theme, mark as initialized
finishInit(a) == [applyTheme(a, a.theme) EXCEPT !.isInitialized = TRUE]

\* initializeApp (run at start-up, while the app is not yet initialized) up to
\* its first await
InitializeAppStart ==
  /\ MayStart("initializeApp")
  /\ ~appState.isInitialized
  /\ IF isAuthenticatedThrows(store)
     THEN /\ ev' = Ev("initializeApp", "failure", Null, Undefined, Undefined, <<>>)
          /\ UNCHANGED <<pc, appState, dark>>
     ELSE IF isAuthenticated(store)
     THEN /\ pc' = [pc EXCEPT !["initializeApp"] = "awaitProfile"]
          /\ ev' = Ev("initializeApp", "pending", "/auth/profile", Undefined, Undefined, <<>>)
          /\ UNCHANGED <<appState, dark>>
     ELSE /\ appState' = finishInit(appState)
          /\ dark' = applyThemeDark(appState.theme)
          /\ ev' = Ev("initializeApp", "success", Null, Undefined, Undefined, <<>>)
          /\ pc' = pc
  /\ UNCHANGED <<store, activityTimer, timers, prefersDark, now, lastSignal, authSince, call, retry, form, snap, cleaned>>

\* getCurrentUser: the user of a successful profile response, else null
getCurrentUser(o) == IF SuccessWithData(o) /\ Truthy(o.user) THEN o.user ELSE Null

\* the profile responses of the session specification
SessionProfileOutcomes == {o \in ProfileOutcomes : o.status \in {0, 200} /\ o.user # "u2"}

\* GET /auth/profile settled with outcome o
InitProfileReturn ==
  /\ pc["initializeApp"] = "awaitProfile"
  /\ \E o \in SessionProfileOutcomes :
       IF getCurrentUser(o) # Null
       THEN /\ appState' = [appState EXCEPT !.currentUser = getCurrentUser(o),
                                             !.isAuthenticated = TRUE]
            /\ authSince' = IF appState.isAuthenticated THEN authSince ELSE now
            /\ pc' = [pc EXCEPT !["initializeApp"] = "awaitPrefs"]
            /\ ev' = [Ev("initializeApp", "pending", "/user/preferences", getCurrentUser(o),
                         Undefined, <<>>) EXCEPT !.resp = o]
            /\ UNCHANGED <<store, dark>>
       ELSE IF Truthy(getToken(store))
       THEN /\ pc' = [pc EXCEPT !["initializeApp"] = "awaitLogout"]
            /\ ev' = [Ev("initializeApp", "pending", "/auth/logout", Undefined, Undefined, <<>>)
                        EXCEPT !.resp = o]
            /\ UNCHANGED <<store, appState, dark, authSince>>
       ELSE /\ store' = clearAuthData(store)
            /\ appState' = finishInit([appState EXCEPT !.isAuthenticated = FALSE])
            /\ dark' = applyThemeDark(appState.theme)
            /\ authSince' = -1
            /\ pc' = [pc EXCEPT !["initializeApp"] = "idle"]
            /\ ev' = [Ev("initializeApp", "success", Null, Undefined, Undefined, <<>>)
                        EXCEPT !.resp = o]
  /\ UNCHANGED <<activityTimer, timers, prefersDark, now, lastSignal, call, retry, form, snap, cleaned>>

\* GET /user/preferences of initializeApp settled with outcome o
InitPrefsReturn ==
  /\ pc["initializeApp"] = "awaitPrefs"
  /\ \E o \in PrefsOutcomes :
       LET a == IF SuccessWithData(o)
                THEN [appState EXCEPT !.userPreferences = o.prefs, !.theme = o.prefs]
                ELSE appState
       IN /\ appState' = finishInit(a)
          /\ dark' = applyThemeDark(a.theme)
  /\ pc' = [pc EXCEPT !["initializeApp"] = "idle"]
  /\ ev' = Ev("initializeApp", "success", Null, appState.currentUser, Undefined, <<>>)
  /\ UNCHANGED <<store, activityTimer, timers, prefersDark, now, lastSignal, authSince, call, retry, form, snap, cleaned>>

\* the POST /auth/logout of initializeApp's invalid-token branch settled
InitLogoutReturn ==
  /\ pc["initializeApp"] = "awaitLogout"
  /\ \E o \in LogoutOutcomes :
       /\ store' = clearAuthData(store)
       /\ appState' = finishInit([appState EXCEPT !.isAuthenticated = FALSE])
       /\ dark' = applyThemeDark(appState.theme)
       /\ authSince' = -1
  /\ pc' = [pc EXCEPT !["initializeApp"] = "idle"]
  /\ ev' = Ev("initializeApp", "success", Null, Undefined, Undefined, <<>>)
  /\ UNCHANGED <<activityTimer, timers, prefersDark, now, lastSignal, call, retry, form, snap, cleaned>>

Min(S) == CHOOSE x \in S : \A y \in S : x <= y

\* Time passes.  Every request settles or times out within its timeout
\* (30 s at most), far below TickMs, so no request is pending across a tick;
\* a timer whose delay has elapsed runs before the clock moves on.
Tick ==
  /\ pc = Idle
  /\ \A t \in timers : t > now
  /\ now < MaxNow
  /\ now' = Min({now + TickMs} \cup timers)
  /\ ev' = Ev("tick", "void", Null, Undefined, Undefined, <<>>)
  /\ UNCHANGED <<store, pc>>
  /\ UNCHANGED <<appVars, call, retry, form, snap, cleaned>>

----------------------------------------------------------------------------
\* AppController: theme changes

\* a change listener that follows the system in every mode
themeFollowsSystem_Always(a) == TRUE

\* the change listener's test: this.appState.theme === 'system'
themeFollowsSystem(a) == a.theme = "system"

\* the (prefers-color-scheme: dark) media query changes: the listener toggles
\* the dark class to e.matches while the theme is 'system'
PrefersDarkChange ==
  /\ prefersDark' = ~prefersDark
  /\ dark' = IF themeFollowsSystem(appState) THEN prefersDark' ELSE dark
  /\ ev' = Ev("prefersDarkChange", "void", Null, Undefined, Undefined, <<>>)
  /\ UNCHANGED <<store, pc, appState, activityTimer, timers, now, lastSignal, authSince>>
  /\ UNCHANGED <<call, retry, form, snap, cleaned>>

\* updateUserPreferences(preferences) awaiting its PUT; the position keeps
\* preferences.theme (Undefined: the partial preferences carry no theme)
awaitingTheme(theme) ==
  CASE theme = "light" -> "await.light"
    [] theme = "dark" -> "await.dark"
    [] theme = "system" -> "await.system"
    [] OTHER -> "await.none"

\* updateUserPreferences(preferences) up to the await of the PUT
UpdateUserPreferencesStart ==
  /\ MayStart("updateUserPreferences")
  /\ \E theme \in Themes \cup {Undefined} :
       pc' = [pc EXCEPT !["updateUserPreferences"] = awaitingTheme(theme)]
  /\ ev' = Ev("updateUserPreferences", "pending", "/user/preferences", Undefined,
              Undefined, <<>>)
  /\ UNCHANGED <<store, now>>
  /\ UNCHANGED <<appVars, call, retry, form, snap, cleaned>>

\* the PUT settled with outcome o: on success the preferences are stored and a
\* theme that differs from the current one is recorded and applied
UpdateUserPreferencesReturn ==
  /\ pc["updateUserPreferences"] # "idle"
  /\ \E o \in PrefsOutcomes, theme \in Themes \cup {Undefined} :
       /\ pc["updateUserPreferences"] = awaitingTheme(theme)
       /\ IF SuccessWithData(o)
          THEN /\ IF Truthy(theme) /\ theme # appState.theme
                  THEN /\ appState' = applyTheme([appState EXCEPT !.userPreferences = o.prefs,
                                                                  !.theme = theme], theme)
                       /\ dark' = applyThemeDark(theme)
                  ELSE /\ appState' = [appState EXCEPT !.userPreferences = o.prefs]
                       /\ dark' = dark
               /\ ev' = [Ev("updateUserPreferences", "true", Null, Undefined, Undefined,
                            <<"Preferences updated successfully">>) EXCEPT !.resp = o]
          ELSE /\ UNCHANGED <<appState, dark>>
               /\ ev' = [Ev("updateUserPreferences", "false", Null, Undefined, Undefined,
                            <<"Failed to update preferences">>) EXCEPT !.resp = o]
  /\ pc' = [pc EXCEPT !["updateUserPreferences"] = "idle"]
  /\ UNCHANGED <<store, activityTimer, timers, prefersDark, now, lastSignal, authSince>>
  /\ UNCHANGED <<call, retry, form, snap, cleaned>>

----------------------------------------------------------------------------
\* AppController.getAppState and what a collaborator does with the snapshot

\* the fields of AppState whose values are objects (User, UserPreferences, Date)
ObjectFields == {"currentUser", "userPreferences", "lastActivity"}

\* the field holds an object: lastActivity always, the others unless null
isObject(a, f) == IF f = "lastActivity" THEN TRUE ELSE a[f] # Null

\* { ...this.appState }: a new object with the same field values; a field that
\* holds an object holds the very same object in the copy (aliases)
shallowCopy(a) ==
  [taken |-> TRUE,
   state |-> [f \in DOMAIN a |-> a[f]],
   aliases |-> {f \in ObjectFields : isObject(a, f)}]

\* getAppState()
GetAppState ==
  /\ snap' = shallowCopy(appState)
  /\ ev' = Ev("getAppState", "void", Null, Undefined, Undefined, <<>>)
  /\ UNCHANGED <<store, pc, now>>
  /\ UNCHANGED <<appVars, call, retry, form, cleaned>>

\* what a collaborator may write into a field
FieldValues(f) ==
  CASE f = "currentUser" -> Users
    [] f = "userPreferences" -> Themes
    [] f = "theme" -> Themes
    [] f = "isAuthenticated" -> BOOLEAN
    [] f = "lastActivity" -> {0, now}

\* the collaborator assigns a field of the snapshot object: snapshot.f = v
SnapshotAssign ==
  /\ snap.taken
  /\ \E f \in ObjectFields \cup {"theme", "isAuthenticated"} :
       \E v \in FieldValues(f) :
         snap' = [snap EXCEPT !.state[f] = v, !.aliases = @ \ {f}]
  /\ ev' = Ev("snapshot.assign", "void", Null, Undefined, Undefined, <<>>)
  /\ UNCHANGED <<store, pc, now>>
  /\ UNCHANGED <<appVars, call, retry, form, cleaned>>

\* the collaborator changes the object a field of the snapshot refers to
\* (snapshot.currentUser.email = ..., snapshot.userPreferences.theme = ...,
\* snapshot.lastActivity.setTime(...)): the object changes for every holder
SnapshotMutate ==
  /\ snap.taken
  /\ \E f \in ObjectFields :
       /\ isObject(snap.state, f)
       /\ \E v \in FieldValues(f) :
            /\ v # snap.state[f]
            /\ snap' = [snap EXCEPT !.state[f] = v]
            /\ appState' = IF f \in snap.aliases THEN [appState EXCEPT ![f] = v]
                           ELSE appState
  /\ ev' = Ev("snapshot.mutate", "void", Null, Undefined, Undefined, <<>>)
  /\ UNCHANGED <<store, pc, now, activityTimer, timers, dark, prefersDark,
                 lastSignal, authSince>>
  /\ UNCHANGED <<call, retry, form, cleaned>>

----------------------------------------------------------------------------
\* BaseApiService.request (src/unnamed/part_004)

\* { ...a, ...b } and Object.assign(a, b): b wins on conflict
Merge(a, b) == [h \in HeaderNames |-> IF b[h] # Null THEN b[h] ELSE a[h]]

DefaultHeaders ==
  [NoHeaders EXCEPT !["Content-Type"] = "application/json", !["Accept"] = "application/json"]

\* the headers a caller may pass in options.headers
CallerHeaders(h) ==
  CASE h = "custom" -> [NoHeaders EXCEPT !["X-Custom"] = "1"]
    [] OTHER -> NoHeaders

\* prepareHeaders(options)
prepareHeaders(options, s) ==
  LET headers == Merge(DefaultHeaders, CallerHeaders(options.headers))
  IN IF options.requireAuth # "false" THEN Merge(headers, getAuthHeaders(s)) ELSE headers

\* the default of request's timeout option, in ms
defaultTimeout == 30000

\* the request options tried: requireAuth and headers may be left unset
RequestOptions ==
  [method : {"GET", "POST"}, body : {"none", "json", "formdata"},
   requireAuth : {"unset", "true", "false"}, headers : {"unset", "custom"},
   timeout : {defaultTimeout, 5}]

\* a request configuration that serializes the body for every verb
requestConfig_BodyOnGet(options, s) ==
  [method |-> options.method, headers |-> prepareHeaders(options, s),
   body |-> options.body]

\* the RequestInit handed to fetch: { method, headers, ...restOptions } and the
\* body added for non-GET requests (restOptions carries options.headers when the
\* caller passed headers)
requestConfig(options, s) ==
  LET prepared == prepareHeaders(options, s)
      hasBody == options.body # "none" /\ options.method # "GET"
      headers == IF hasBody /\ options.body = "formdata"
                 THEN [prepared EXCEPT !["Content-Type"] = Null]
                 ELSE prepared
  IN [method |-> options.method,
      headers |-> IF options.headers # "unset" THEN CallerHeaders(options.headers)
                  ELSE headers,
      body |-> IF hasBody THEN options.body ELSE "none"]

\* raw responses of the transport: status line and body
Statuses == {200, 401, 500}

StatusText(status) ==
  CASE status = 200 -> "OK"
    [] status = 401 -> "Unauthorized"
    [] OTHER -> "Internal Server Error"

\* the text `HTTP ${response.status}: ${response.statusText}`
HttpMessage(status) ==
  CASE status = 200 -> "HTTP 200: OK"
    [] status = 401 -> "HTTP 401: Unauthorized"
    [] OTHER -> "HTTP 500: Internal Server Error"

\* bodies: a JSON object with any of the envelope's fields, the JSON text null,
\* and a body that is no JSON (valid = FALSE)
Bodies ==
  [valid : {TRUE}, isNull : {FALSE}, success : BOOLEAN, hasData : BOOLEAN,
   message : {Undefined, "msg"}, errors : {Undefined, "errs"}]
  \cup {[valid |-> TRUE, isNull |-> TRUE, success |-> FALSE, hasData |-> FALSE,
         message |-> Undefined, errors |-> Undefined]}
  \cup {[valid |-> FALSE, isNull |-> FALSE, success |-> FALSE, hasData |-> FALSE,
         message |-> Undefined, errors |-> Undefined]}

RawResponses == [status : Statuses, body : Bodies]

\* response.ok
Ok(raw) == raw.status >= 200 /\ raw.status <= 299

\* what request delivers to its caller: via tells which side of the race
\* produced it ("response", "timeout", "network")
Outcome(via, kind, status, message, errors, success, hasData) ==
  [via |-> via, kind |-> kind, status |-> status, message |-> message,
   errors |-> errors, success |-> success, hasData |-> hasData]

\* reading .message of a JSON body that is null
NullBodyMessage == "Cannot read properties of null (reading 'message')"

\* processResponse(response): kind "return" is the value returned, "throw" an
\* ApiError thrown, "error" another Error thrown (status -1: it has none).  A
\* body that is no JSON is replaced by the synthesized failure envelope; a body
\* of null parses, and on a status outside 2xx reading responseData.message
\* throws a TypeError, while on 2xx the null itself is returned.
processResponse(raw) ==
  LET responseData ==
        IF raw.body.valid THEN raw.body
        ELSE [raw.body EXCEPT !.success = FALSE,
                              !.message = "Invalid response format from server"]
  IN IF ~Ok(raw)
     THEN IF responseData.isNull
          THEN Outcome("response", "error", -1, NullBodyMessage, Undefined, FALSE, FALSE)
          ELSE Outcome("response", "throw", raw.status,
                       IF Truthy(responseData.message) THEN responseData.message
                       ELSE HttpMessage(raw.status),
                       responseData.errors, FALSE, FALSE)
     ELSE Outcome("response", "return", raw.status, responseData.message,
                  responseData.errors, responseData.success, responseData.hasData)

\* a timeout rejection built with ApiError's default status
timeoutReject_DefaultStatus ==
  Outcome("timeout", "throw", 500, "Request timeout", Undefined, FALSE, FALSE)

\* reject(new ApiError('Request timeout', 408))
timeoutReject ==
  Outcome("timeout", "throw", 408, "Request timeout", Undefined, FALSE, FALSE)

\* fetch's rejection: a TypeError, no ApiError
fetchError ==
  Outcome("network", "error", -1, "Failed to fetch", Undefined, FALSE, FALSE)

\* a catch block that rewraps every error as a network error
catchRequest_RewrapAll(error) == [error EXCEPT !.kind = "throw", !.status = 0]

\* request's catch block: an ApiError is rethrown as it is, any other Error
\* becomes ApiError(error.message, 0)
catchRequest(error) ==
  IF error.kind = "throw" THEN error
  ELSE [error EXCEPT !.kind = "throw", !.status = 0]

\* what the try block's result becomes for the caller
settle(result) == IF result.kind = "return" THEN result ELSE catchRequest(result)

\* a race in which a later settlement is taken too
raceOpen_Always(c) == TRUE

\* Promise.race takes the first settlement only
raceOpen(c) == c.winner = "none"

\* request up to the await of Promise.race([fetch(url, requestConfig), timeoutPromise])
RequestStart ==
  /\ call.stage \in {"none", "settled"}
  /\ \E options \in RequestOptions :
       call' = [stage |-> "racing", options |-> options,
                sent |-> requestConfig(options, store), fetchCalls |-> 1,
                fetch |-> "pending", timer |-> "pending", winner |-> "none",
                raw |-> [status |-> 0, body |-> [valid |-> FALSE, isNull |-> FALSE, success |-> FALSE,
                         hasData |-> FALSE, message |-> Undefined, errors |-> Undefined]],
                outcomes |-> <<>>]
  /\ UNCHANGED <<store, pc, ev, now>>
  /\ UNCHANGED <<appVars, retry, form, snap, cleaned>>

\* fetch resolves with a raw response; if it wins the race, processResponse
\* starts to read the body
FetchResolve ==
  /\ call.stage # "none"
  /\ call.fetch = "pending"
  /\ \E raw \in RawResponses :
       call' = IF raceOpen(call)
               THEN [call EXCEPT !.fetch = "resolved", !.winner = "fetch",
                                 !.stage = "parsing", !.raw = raw]
               ELSE [call EXCEPT !.fetch = "resolved"]
  /\ UNCHANGED <<store, pc, ev, now>>
  /\ UNCHANGED <<appVars, retry, form, snap, cleaned>>

\* fetch rejects (DNS, connection refused, TLS): if it wins the race the catch
\* block rethrows it as ApiError(message, 0)
FetchReject ==
  /\ call.stage # "none"
  /\ call.fetch = "pending"
  /\ call' = IF raceOpen(call)
              THEN [call EXCEPT !.fetch = "rejected", !.winner = "fetch",
                                !.stage = "settled",
                                !.outcomes = Append(@, settle(fetchError))]
              ELSE [call EXCEPT !.fetch = "rejected"]
  /\ UNCHANGED <<store, pc, ev, now>>
  /\ UNCHANGED <<appVars, retry, form, snap, cleaned>>

\* the timeout timer fires (it is never cleared): if it wins the race the
\* ApiError('Request timeout', 408) passes through the catch block
TimeoutFire ==
  /\ call.stage # "none"
  /\ call.timer = "pending"
  /\ call' = IF raceOpen(call)
              THEN [call EXCEPT !.timer = "fired", !.winner = "timeout",
                                !.stage = "settled",
                                !.outcomes = Append(@, settle(timeoutReject))]
              ELSE [call EXCEPT !.timer = "fired"]
  /\ UNCHANGED <<store, pc, ev, now>>
  /\ UNCHANGED <<appVars, retry, form, snap, cleaned>>

\* response.json() settled: processResponse returns the envelope or throws the
\* ApiError of a non-2xx status, which the catch block rethrows unchanged
BodyRead ==
  /\ call.stage = "parsing"
  /\ call' = [call EXCEPT !.stage = "settled",
                           !.outcomes = Append(@, settle(processResponse(call.raw)))]
  /\ UNCHANGED <<store, pc, ev, now>>
  /\ UNCHANGED <<appVars, retry, form, snap, cleaned>>

----------------------------------------------------------------------------
\* BaseController.createRetryOperation (src/src/controllers/BaseController.ts)

\* the largest maxRetries tried
MaxAttempts == 3

\* maxRetries as passed by the caller: negative, zero and positive counts
MaxRetriesValues == -1..MaxAttempts

\* the default of the delay parameter, in ms
DefaultRetryDelay == 1000

\* the base delays tried: the default and a shorter one
RetryDelays == {DefaultRetryDelay, 250}

\* values the operation resolves with
ResultValues == {"v1", "v2"}

\* values the operation rejects with that are instances of Error
ErrorValues == {"Error:E1", "Error:E2"}

\* values the operation rejects with that are no Error: a thrown string
NonErrorValues == {"boom"}

\* how one invocation of operation() settles
AttemptResults ==
  [kind : {"resolve"}, value : ResultValues]
    \cup [kind : {"reject"}, value : ErrorValues \cup NonErrorValues]

\* new Error('Unknown error')
UnknownError == "Error:Unknown error"

\* error instanceof Error
instanceofError(error) == error \in ErrorValues \cup {UnknownError}

\* lastError = error instanceof Error ? error : new Error('Unknown error')
toLastError(error) == IF instanceofError(error) THEN error ELSE UnknownError

\* an attempt counter that does not advance
nextAttempt_Stuck(attempt) == attempt

\* attempt++
nextAttempt(attempt) == attempt + 1

\* the for loop's test: attempt <= maxRetries
loopContinues(attempt, maxRetries) == attempt <= maxRetries

\* the loop entered at attempt, or left for the final `throw lastError!`
enterLoop(r, attempt) ==
  IF loopContinues(attempt, r.maxRetries)
  THEN [r EXCEPT !.stage = "invoking", !.attempt = attempt,
                 !.invocations = @ + 1]
  ELSE [r EXCEPT !.stage = "thrown", !.attempt = attempt,
                 !.outcome = [kind |-> "reject", value |-> r.lastError]]

\* createRetryOperation(operation, maxRetries, delay) up to its first await;
\* lastError is declared and not assigned
RetryStart ==
  /\ retry.stage \in {"none", "returned", "thrown"}
  /\ \E maxRetries \in MaxRetriesValues, delay \in RetryDelays :
       retry' = enterLoop([stage |-> "start", maxRetries |-> maxRetries,
                           delay |-> delay, attempt |-> 0,
                           invocations |-> 0, waits |-> <<>>, history |-> <<>>,
                           lastError |-> Undefined,
                           outcome |-> [kind |-> "none", value |-> Undefined]], 1)
  /\ UNCHANGED <<store, pc, ev, now>>
  /\ UNCHANGED <<appVars, call, form, snap, cleaned>>

\* the awaited operation() settles: its value is returned, or its error is kept
\* in lastError and either thrown (last attempt) or followed by the backoff timer
RetryAttemptSettles ==
  /\ retry.stage = "invoking"
  /\ \E r \in AttemptResults :
       LET seen == [retry EXCEPT !.history = Append(@, r)]
       IN retry' =
            IF r.kind = "resolve"
            THEN [seen EXCEPT !.stage = "returned",
                              !.outcome = [kind |-> "resolve", value |-> r.value]]
            ELSE LET lastError == toLastError(r.value)
                 IN IF retry.attempt = retry.maxRetries
                    THEN [seen EXCEPT !.stage = "thrown", !.lastError = lastError,
                                      !.outcome = [kind |-> "reject", value |-> lastError]]
                    ELSE [seen EXCEPT !.stage = "waiting", !.lastError = lastError,
                                      !.waits = Append(@, retry.delay * retry.attempt)]
  /\ UNCHANGED <<store, pc, ev, now>>
  /\ UNCHANGED <<appVars, call, form, snap, cleaned>>

\* the backoff timer fires: attempt++ and the loop test
RetryDelayElapsed ==
  /\ retry.stage = "waiting"
  /\ retry' = enterLoop(retry, nextAttempt(retry.attempt))
  /\ UNCHANGED <<store, pc, ev, now>>
  /\ UNCHANGED <<appVars, call, form, snap, cleaned>>

----------------------------------------------------------------------------
\* The signup form (src/src/components/auth/SignupForm.tsx) over AuthService.signup

SignupFields == {"firstName", "lastName", "email", "password", "confirmPassword"}

\* the length of the texts typed into the form
StringLength(text) ==
  CASE text = "J" -> 1
    [] text = "Doe" -> 3
    [] text = "John" -> 4
    [] text = "short" -> 5
    [] text = "Passw0rd1" -> 9
    [] text = "Passw0rd2" -> 9
    [] text = "not-an-email" -> 12
    [] text = "john@example.com" -> 16

\* z.string().email()
isEmail(text) == text = "john@example.com"

\* what the user may have typed when the form is submitted
SignupInputs ==
  {d \in [SignupFields -> {"J", "John", "Doe", "not-an-email", "john@example.com",
                           "short", "Passw0rd1", "Passw0rd2"}] :
     /\ d["firstName"] \in {"J", "John"}
     /\ d["lastName"] = "Doe"
     /\ d["email"] \in {"not-an-email", "john@example.com"}
     /\ d["password"] \in {"short", "Passw0rd1", "Passw0rd2"}
     /\ d["confirmPassword"] \in {"short", "Passw0rd1", "Passw0rd2"}}

\* the field rules of signupSchema, before .refine
signupSchema_NoRefine(data) ==
  /\ StringLength(data["firstName"]) >= 2
  /\ StringLength(data["lastName"]) >= 2
  /\ isEmail(data["email"])
  /\ StringLength(data["password"]) >= 8

\* signupSchema: the field rules and the refinement password === confirmPassword
signupSchema(data) ==
  /\ StringLength(data["firstName"]) >= 2
  /\ StringLength(data["lastName"]) >= 2
  /\ isEmail(data["email"])
  /\ StringLength(data["password"]) >= 8
  /\ data["password"] = data["confirmPassword"]

\* const { confirmPassword, ...signupData } = credentials
signupData(credentials) ==
  [f \in DOMAIN credentials \ {"confirmPassword"} |-> credentials[f]]

\* the form is submitted: handleSubmit runs the resolver and calls onSubmit only
\* for data that passes signupSchema; onSubmit calls handleSignup, which calls
\* authService.signup, which posts signupData to /auth/signup
SubmitSignupForm ==
  /\ MayStart("signup")
  /\ \E data \in SignupInputs :
       IF signupSchema(data)
       THEN /\ pc' = [pc EXCEPT !["signup"] = "await"]
            /\ ev' = Ev("signup", "pending", "/auth/signup", Undefined, Undefined, <<>>)
            /\ form' = [stage |-> "submitted", data |-> data, body |-> signupData(data),
                        requireAuth |-> "false"]
       ELSE /\ pc' = pc
            /\ ev' = Ev("submit", "invalid", Null, Undefined, Undefined, <<>>)
            /\ form' = [stage |-> "invalid", data |-> data, body |-> <<>>,
                        requireAuth |-> "false"]
  /\ UNCHANGED <<store, now>>
  /\ UNCHANGED <<appVars, call, retry, snap, cleaned>>

----------------------------------------------------------------------------
\* Specifications

\* what every specification starts from, the persisted session apart
InitRest ==
  /\ pc = Idle
  /\ ev = Ev("constructor", "void", Null, Undefined, Undefined, <<>>)
  /\ appState = InitialAppState
  /\ activityTimer = 0
  /\ timers = {}
  /\ dark = FALSE
  /\ now = 0
  /\ lastSignal = -1
  /\ authSince = -1
  /\ call = NoCall
  /\ retry = NoRetry
  /\ form = NoForm
  /\ snap = NoSnapshot
  /\ cleaned = FALSE

\* AuthService alone: login, signup, logout and refreshAuthToken, interleaved
InitAuth ==
  /\ store \in PersistedStores
  /\ prefersDark = FALSE
  /\ InitRest

NextAuth ==
  \/ LoginStart
  \/ LoginReturn
  \/ SignupStart
  \/ SignupReturn
  \/ LogoutStart
  \/ LogoutReturn
  \/ RefreshStart
  \/ RefreshReturn

SpecAuth == InitAuth /\ [][NextAuth]_vars

\* The session manager: AppController over AuthService, with the clock
SessionStores ==
  {s \in PersistedStores : /\ s[TOKEN_KEY] \in {Null, "T1"}
                           /\ s[USER_KEY] \in {Null, JSONstringify("u1")}
                           /\ s[REFRESH_TOKEN_KEY] \in {Null, "R1"}}

SessionAuthOutcomes ==
  {o \in AuthOutcomes : o.status \in {0, 200} /\ o.token \in {"T1", Undefined}
                                               /\ o.refreshToken = Undefined
                                               /\ (o.hasData => o.user = "u1" /\ o.token = "T1")}

SessionLoginReturn == \E o \in SessionAuthOutcomes : AuthReturn("login", o)

InitSession ==
  /\ store \in SessionStores
  /\ prefersDark \in BOOLEAN
  /\ InitRest

NextSession ==
  \/ LoginStart
  \/ SessionLoginReturn
  \/ InitializeAppStart
  \/ InitProfileReturn
  \/ InitPrefsReturn
  \/ InitLogoutReturn
  \/ HandleLoginSuccessStart
  \/ HandleLoginSuccessReturn
  \/ HandleLogoutStart
  \/ HandleLogoutReturn
  \/ Signal
  \/ TimerFire
  \/ Tick

SpecSession == InitSession /\ [][NextSession]_vars

\* isSessionActive as a function of the clock and the last activity, to the ms
ActivityTimes == {0, 1000, 60000}

Elapsed == {0, 1} \cup UNION {{m * 60 * 1000 - 1, m * 60 * 1000, m * 60 * 1000 + 1} :
                                m \in QueryMinutes}

InitActive ==
  /\ store = [k \in StorageKeys |-> Null]
  /\ prefersDark = FALSE
  /\ pc = Idle
  /\ ev = Ev("constructor", "void", Null, Undefined, Undefined, <<>>)
  /\ \E t \in ActivityTimes, d \in Elapsed, auth \in BOOLEAN :
       /\ appState = [InitialAppState EXCEPT !.lastActivity = t, !.isAuthenticated = auth]
       /\ now = t + d
  /\ activityTimer = 0
  /\ timers = {}
  /\ dark = FALSE
  /\ lastSignal = -1
  /\ authSince = -1
  /\ call = NoCall
  /\ retry = NoRetry
  /\ form = NoForm
  /\ snap = NoSnapshot
  /\ cleaned = FALSE

NextActive == IsSessionActiveCall

SpecActive == InitActive /\ [][NextActive]_vars
\* One request call at a time, against every ordering of fetch and timer
RequestStores == {s \in SessionStores : s[REFRESH_TOKEN_KEY] = Null}

InitRequest ==
  /\ store \in RequestStores
  /\ prefersDark = FALSE
  /\ InitRest

NextRequest ==
  \/ RequestStart
  \/ FetchResolve
  \/ FetchReject
  \/ TimeoutFire
  \/ BodyRead

SpecRequest == InitRequest /\ [][NextRequest]_vars

\* createRetryOperation alone, against every sequence of attempt results
InitRetry ==
  /\ store = [k \in StorageKeys |-> Null]
  /\ prefersDark = FALSE
  /\ InitRest

NextRetry ==
  \/ RetryStart
  \/ RetryAttemptSettles
  \/ RetryDelayElapsed

SpecRetry == InitRetry /\ [][NextRetry]_vars

\* The signup form over AuthService.signup
InitSignup ==
  /\ store = [k \in StorageKeys |-> Null]
  /\ prefersDark = FALSE
  /\ InitRest

NextSignup ==
  \/ SubmitSignupForm
  \/ SignupReturn

SpecSignup == InitSignup /\ [][NextSignup]_vars

\* Snapshots of the session state in the hands of a collaborator
SnapshotAppStates ==
  {InitialAppState, [InitialAppState EXCEPT !.isInitialized = TRUE]} \cup
  {[InitialAppState EXCEPT !.isInitialized = TRUE, !.isAuthenticated = TRUE,
                           !.currentUser = "u1", !.userPreferences = th, !.theme = th] :
     th \in {"light", "dark"}} \cup
  {[InitialAppState EXCEPT !.isInitialized = TRUE, !.isAuthenticated = TRUE,
                           !.currentUser = "u1"]}

InitSnapshot ==
  /\ store = [k \in StorageKeys |-> Null]
  /\ prefersDark = FALSE
  /\ pc = Idle
  /\ ev = Ev("constructor", "void", Null, Undefined, Undefined, <<>>)
  /\ appState \in SnapshotAppStates
  /\ activityTimer = 0
  /\ timers = {}
  /\ dark = (appState.theme = "dark")
  /\ now = TickMs
  /\ lastSignal = -1
  /\ authSince = IF appState.isAuthenticated THEN 0 ELSE -1
  /\ call = NoCall
  /\ retry = NoRetry
  /\ form = NoForm
  /\ snap = NoSnapshot
  /\ cleaned = FALSE

NextSnapshot ==
  \/ GetAppState
  \/ SnapshotAssign
  \/ SnapshotMutate

SpecSnapshot == InitSnapshot /\ [][NextSnapshot]_vars

\* The theme under initialization, login, logout, preference updates and
\* changes of the system's colour scheme
NextTheme ==
  \/ LoginStart
  \/ SessionLoginReturn
  \/ InitializeAppStart
  \/ InitProfileReturn
  \/ InitPrefsReturn
  \/ InitLogoutReturn
  \/ HandleLoginSuccessStart
  \/ HandleLoginSuccessReturn
  \/ HandleLogoutStart
  \/ HandleLogoutReturn
  \/ UpdateUserPreferencesStart
  \/ UpdateUserPreferencesReturn
  \/ PrefersDarkChange

SpecTheme == InitSession /\ [][NextTheme]_vars

\* The activity timer around AppController.cleanup()
NextCleanup ==
  \/ InitializeAppStart
  \/ InitProfileReturn
  \/ InitPrefsReturn
  \/ InitLogoutReturn
  \/ HandleLogoutReturn
  \/ Signal
  \/ TimerFire
  \/ Tick
  \/ Cleanup

SpecCleanup == InitSession /\ [][NextCleanup]_vars

----------------------------------------------------------------------------
\* Claims

Cleared == [k \in StorageKeys |-> Null]

\* C1: after login returns from a success response carrying token T and a user
\* record, the persisted token is T, the persisted user is that record and
\* isAuthenticated() is true; after logout() completes, token and user are
\* absent and isAuthenticated() is false.
C1_LoginLogoutRoundTrip ==
  /\ (/\ ev.op = "login" /\ ev.resp.kind = "envelope" /\ ev.resp.success /\ ev.resp.hasData
      /\ ev.resp.token \in Tokens /\ ev.resp.user \in Users)
       => /\ ev.result = "success"
          /\ getToken(store) = ev.resp.token
          /\ getStoredUser(store) = ev.resp.user
          /\ isAuthenticated(store)
  /\ (ev.op = "logout" /\ ev.result = "void")
       => /\ getToken(store) = Null
          /\ getStoredUser(store) = Null
          /\ ~isAuthenticated(store)

\* a login that replaced a persisted session by another token and user
C1_Witness ==
  /\ ev.op = "login" /\ ev.result = "success"
  /\ ev.resp.token = "T2" /\ ev.resp.user = "u2"
  /\ store[TOKEN_KEY] = "T2"

\* C2: a login or signup that fails (thrown ApiError of any status, or an
\* envelope with success=false) leaves the three persisted keys and the
\* authentication state as they were and returns success=false.
C2_FailedAuthChangesNothing ==
  [][(/\ ev'.op \in {"login", "signup"}
      /\ ev'.resp.kind # "none"
      /\ (ev'.resp.kind = "throw" \/ ~ev'.resp.success))
       => /\ store' = store
          /\ isAuthenticated(store') = isAuthenticated(store)
          /\ ev'.result = "failure"]_vars

\* a signup answered success=false (with data) while a session is persisted
C2_Witness ==
  /\ ev.op = "signup" /\ ev.result = "failure"
  /\ ev.resp.kind = "envelope" /\ ev.resp.hasData
  /\ store[TOKEN_KEY] = "T2"

\* C3: logout() ends with the three persisted keys removed whether the
\* notification succeeded, failed, timed out or was skipped, and it returns
\* normally in each case.
C3_LogoutAlwaysClears ==
  [][ev'.op = "logout" /\ pc'["logout"] = "idle"
       => /\ store' = Cleared
          /\ ev'.result = "void"]_vars

\* a logout whose notification timed out, with a refresh token persisted before
C3_Witness ==
  /\ ev.op = "logout" /\ ev.result = "void"
  /\ ev.resp.kind = "throw" /\ ev.resp.status = 408
  /\ store = Cleared

\* C4: when AppController.handleLogout completes (it then shows "Logged out
\* successfully"), the session state has its initial unauthenticated shape:
\* isAuthenticated=false, currentUser=null, userPreferences=null, theme='system'.
C4_HandleLogoutResetsState ==
  (Len(ev.toasts) > 0 /\ ev.toasts[Len(ev.toasts)] = "Logged out successfully")
    => /\ appState.isAuthenticated = InitialAppState.isAuthenticated
       /\ appState.currentUser = InitialAppState.currentUser
       /\ appState.userPreferences = InitialAppState.userPreferences
       /\ appState.theme = InitialAppState.theme

\* a handleLogout that logged out user u1 after its POST settled
C4_Witness ==
  /\ ev.op = "handleLogout" /\ ev.result = "void" /\ ev.user = "u1"
  /\ store = Cleared
  /\ appState.isInitialized

\* the start of the current idle period: the last interaction signal, or the
\* moment the session became authenticated if that came later
IdleSince == IF lastSignal > authSince THEN lastSignal ELSE authSince

\* C5: an authenticated session never outlives 30 minutes without an interaction
\* signal: once that much time has passed the manager has forced the logout,
\* however the session became authenticated.
C5_InactivityExpiryGuaranteed ==
  appState.isAuthenticated => now - IdleSince <= InactivityMs

\* C6: a forced logout happens only when at least 30 minutes have passed since
\* the last interaction signal, and every interaction signal sets the
\* last-activity timestamp to now and restarts the 30-minute countdown.
C6_NoExpiryWhileActive ==
  /\ [](ev.op = "activityTimer" /\ ev.result = "expired"
          => lastSignal >= 0 /\ now - lastSignal >= InactivityMs)
  /\ [][ev'.op = "updateActivity"
          => /\ appState'.lastActivity = now'
             /\ timers' = {now' + InactivityMs}]_vars

\* a logout forced exactly 30 minutes after the last signal
C6_Witness ==
  /\ ev.op = "activityTimer" /\ ev.result = "expired"
  /\ lastSignal > 0
  /\ now - lastSignal = InactivityMs

\* C7: isSessionActive(m) is false when now - lastActivity exceeds m*60*1000 ms,
\* false when it equals it, true when it is smaller, and it changes no state.
C7_IsSessionActive ==
  /\ [](ev.op = "isSessionActive"
          => LET d == now - appState.lastActivity
                 limit == ev.arg * 60 * 1000
             IN /\ d > limit => ev.result = "false"
                /\ d = limit => ev.result = "false"
                /\ d < limit => ev.result = "true")
  /\ [][ev'.op = "isSessionActive"
          => UNCHANGED <<store, pc, appState, activityTimer, timers, dark, now>>]_vars

\* the boundary: exactly 30 minutes of inactivity asked with m = 30
C7_Witness ==
  /\ ev.op = "isSessionActive" /\ ev.arg = 30 /\ ev.result = "false"
  /\ now - appState.lastActivity = 30 * 60 * 1000

\* C8: a successful refresh replaces the persisted token (and the refresh token
\* when a new one is returned) and leaves the persisted user alone; a failed
\* refresh changes nothing persisted, so the user stays authenticated.
C8_RefreshFrame ==
  [][ev'.op = "refresh" /\ pc["refresh"] = "await"
       => IF ev'.resp.kind = "envelope" /\ ev'.resp.success /\ ev'.resp.hasData
          THEN /\ store'[USER_KEY] = store[USER_KEY]
               /\ store'[TOKEN_KEY] = String(ev'.resp.token)
               /\ store'[REFRESH_TOKEN_KEY] =
                     IF ev'.resp.refreshToken \in RefreshTokens
                     THEN ev'.resp.refreshToken ELSE store[REFRESH_TOKEN_KEY]
          ELSE /\ store' = store
               /\ isAuthenticated(store') = isAuthenticated(store)
               /\ ev'.result = "failure"]_vars

\* a refresh that replaced token and refresh token under a persisted user
C8_Witness ==
  /\ ev.op = "refresh" /\ ev.result = "success"
  /\ ev.resp.token = "T2" /\ ev.resp.refreshToken = "R2"
  /\ store[TOKEN_KEY] = "T2" /\ store[REFRESH_TOKEN_KEY] = "R2"
  /\ store[USER_KEY] = JSONstringify("u1")

\* C9: with no refresh token persisted, refreshAuthToken returns failure and
\* issues no request.
C9_NoRefreshTokenNoRequest ==
  [][(/\ ev'.op = "refresh" /\ pc["refresh"] = "idle"
      /\ store[REFRESH_TOKEN_KEY] = Null)
       => /\ ev'.result = "failure"
          /\ ev'.request = Null
          /\ pc'["refresh"] = "idle"]_vars

\* a refresh refused for want of a refresh token while a token is persisted
C9_Witness ==
  /\ ev.op = "refresh" /\ ev.result = "failure" /\ ev.resp.kind = "none"
  /\ store[REFRESH_TOKEN_KEY] = Null
  /\ store[TOKEN_KEY] \in Tokens

C11_TimeoutWins ==
  /\ [][(/\ call.stage # "none" /\ call.timer = "pending" /\ call.fetch = "pending"
         /\ call'.timer = "fired")
          => /\ call'.stage = "settled"
             /\ Len(call'.outcomes) = 1
             /\ call'.outcomes[1].kind = "throw"
             /\ call'.outcomes[1].status = 408
             /\ call'.outcomes[1].message = "Request timeout"]_vars
  /\ [][(/\ call.stage = "settled" /\ call.outcomes[1].via = "timeout"
         /\ call'.stage = "settled")
          => call'.outcomes = call.outcomes]_vars

\* a call with a 5 ms timeout that timed out and whose fetch failed afterwards
C11_Witness ==
  /\ call.stage = "settled"
  /\ call.options.timeout = 5
  /\ call.outcomes[1].status = 408
  /\ call.outcomes[1].message = "Request timeout"
  /\ call.fetch = "rejected"

\* C12: a rejection of fetch reaches the caller as an ApiError of status 0, and
\* an ApiError raised by the timeout or by processResponse reaches the caller
\* with its own status, never rewrapped as status 0.
C12_ErrorStatuses ==
  call.stage = "settled"
    => LET o == call.outcomes[1]
       IN /\ call.winner = "fetch" /\ call.fetch = "rejected"
               => o.kind = "throw" /\ o.status = 0
          /\ call.winner = "timeout"
               => o.kind = "throw" /\ o.status = 408
          /\ (/\ call.winner = "fetch" /\ call.fetch = "resolved"
              /\ processResponse(call.raw).kind = "throw")
               => o.kind = "throw" /\ o.status = call.raw.status /\ o.status # 0

\* a call settled by a network failure, its timer fired afterwards
C12_Witness ==
  /\ call.stage = "settled"
  /\ call.winner = "fetch" /\ call.fetch = "rejected"
  /\ call.outcomes[1].status = 0
  /\ call.timer = "fired"

\* the body as parsed by the normalizer: the synthesized failure envelope when
\* the body is no JSON
C13_Parsed(raw) ==
  IF raw.body.valid THEN raw.body
  ELSE [raw.body EXCEPT !.success = FALSE, !.message = "Invalid response format from server"]

\* C13: for every response with a status outside 2xx the caller gets an ApiError
\* with that status, the parsed body's message if it has one and otherwise
\* "HTTP <status>: <statusText>", and the parsed body's errors; for every 2xx
\* response the parsed envelope is returned unchanged.
C13_Normalizer ==
  (call.stage = "settled" /\ call.winner = "fetch" /\ call.fetch = "resolved")
    => LET o == call.outcomes[1]
           parsed == C13_Parsed(call.raw)
       IN IF call.raw.status \in 200..299
          THEN /\ o.kind = "return"
               /\ o.success = parsed.success /\ o.hasData = parsed.hasData
               /\ o.message = parsed.message /\ o.errors = parsed.errors
          ELSE /\ o.kind = "throw"
               /\ o.status = call.raw.status
               /\ o.message = (IF parsed.message # Undefined THEN parsed.message
                               ELSE HttpMessage(call.raw.status))
               /\ o.errors = parsed.errors

\* C14: every envelope returned by request has no errors when success is true
\* and no data when success is false.
C14_EnvelopeInvariant ==
  (call.stage = "settled" /\ call.outcomes[1].kind = "return")
    => LET o == call.outcomes[1]
       IN /\ o.success => o.errors = Undefined
          /\ ~o.success => ~o.hasData

\* C15: a GET request is handed to fetch without a body, whatever body the
\* options carry.
C15_GetHasNoBody ==
  (call.stage # "none" /\ call.options.method = "GET") => call.sent.body = "none"

\* a GET whose options carried a body
C15_Witness ==
  /\ call.stage # "none"
  /\ call.options.method = "GET"
  /\ call.options.body = "json"
  /\ call.sent.method = "GET"
  /\ call.sent.body = "none"

\* C16: the request handed to fetch has no Authorization header when requireAuth
\* is false; otherwise it has "Authorization: Bearer <token>" exactly when a
\* token is stored.
C16_AuthorizationHeader ==
  call.stage # "none"
    => LET sent == call.sent.headers["Authorization"]
       IN IF call.options.requireAuth = "false"
          THEN sent = Null
          ELSE sent = (IF Truthy(getToken(store)) THEN Bearer(getToken(store)) ELSE Null)

\* C17: with maxRetries = n >= 1 the operation is invoked at most n times; when
\* attempt k succeeds the call returns that attempt's value after exactly k
\* invocations, every earlier attempt having failed; when all n attempts fail
\* the call fails after exactly n invocations.
C17_BoundedAttempts ==
  (retry.stage # "none" /\ retry.maxRetries >= 1)
    => /\ retry.invocations <= retry.maxRetries
       /\ retry.stage = "returned"
            => /\ retry.invocations = Len(retry.history)
               /\ retry.history[Len(retry.history)].kind = "resolve"
               /\ retry.outcome.kind = "resolve"
               /\ retry.outcome.value = retry.history[Len(retry.history)].value
               /\ \A i \in 1..(Len(retry.history) - 1) : retry.history[i].kind = "reject"
       /\ retry.stage = "thrown"
            => /\ retry.invocations = retry.maxRetries
               /\ Len(retry.history) = retry.maxRetries
               /\ retry.outcome.kind = "reject"
               /\ \A i \in 1..Len(retry.history) : retry.history[i].kind = "reject"

\* maxRetries = 3: two failures, then the third attempt's value is returned
C17_Witness ==
  /\ retry.stage = "returned"
  /\ retry.maxRetries = 3
  /\ retry.invocations = 3
  /\ retry.history[1].kind = "reject" /\ retry.history[2].kind = "reject"
  /\ retry.outcome.value = retry.history[3].value
  /\ retry.waits = <<1000, 2000>>

\* C18: when every attempt fails, the call rejects with the very value the
\* final attempt rejected with, whatever kind of value that is.
C18_LastErrorUnmodified ==
  (retry.stage = "thrown" /\ retry.maxRetries >= 1)
    => retry.outcome.value = retry.history[Len(retry.history)].value

\* C19: with maxRetries <= 0 the operation is not re-invoked, no backoff delay
\* is waited, and the call settles with an error value that is not undefined.
C19_NoRetryOnNonPositive ==
  (retry.stage # "none" /\ retry.maxRetries <= 0)
    => /\ retry.stage \in {"returned", "thrown"}
       /\ retry.invocations <= 1
       /\ retry.waits = <<>>
       /\ retry.outcome.kind = "reject" => retry.outcome.value # Undefined

C21_SnapshotIsolated ==
  [][ev'.op \in {"snapshot.assign", "snapshot.mutate"} => appState' = appState]_vars

\* the notifications a step emitted
C22_Emitted(e) == {e.toasts[i] : i \in 1..Len(e.toasts)}

\* C22: the notifications of an inactivity-forced logout contain "Session
\* Expired" and do not contain the notification of a manual logout ("Logged
\* out successfully"), neither when the timer fires nor when the logout it
\* started completes.
C22_ExpiryDistinctFromLogout ==
  /\ []((ev.op = "activityTimer" /\ ev.result = "expired")
          => /\ "Session Expired" \in C22_Emitted(ev)
             /\ "Logged out successfully" \notin C22_Emitted(ev))
  /\ [][(/\ ev.op = "activityTimer" /\ ev.result = "expired"
         /\ pc["handleLogout"] = "await" /\ pc'["handleLogout"] = "idle")
          => "Logged out successfully" \notin C22_Emitted(ev')]_vars

\* C23: initializeApp restores a persisted session: a profile response with a
\* user makes the state authenticated with that user; the invalid-token branch
\* leaves the persisted keys cleared and the state unauthenticated without a
\* user; initializeApp completes with isInitialized true; and a profile request
\* that merely failed (network failure, timeout, server error) does not clear
\* the persisted session.
C23_RestoreAtStartup ==
  /\ [][(pc["initializeApp"] = "awaitProfile" /\ pc'["initializeApp"] # "awaitProfile")
          => /\ (SuccessWithData(ev'.resp) /\ ev'.resp.user \in Users)
                  => /\ appState'.isAuthenticated
                     /\ appState'.currentUser = ev'.resp.user
                     /\ store' = store
             /\ (ev'.resp.kind = "throw" /\ ev'.resp.status \in {0, 408, 500})
                  => /\ pc'["initializeApp"] # "awaitLogout"
                     /\ store' = store]_vars
  /\ [][(pc["initializeApp"] = "awaitLogout" /\ pc'["initializeApp"] = "idle")
          => /\ store' = [k \in StorageKeys |-> Null]
             /\ ~appState'.isAuthenticated]_vars
  /\ [][(pc["initializeApp"] # "idle" /\ pc'["initializeApp"] = "idle")
          => appState'.isInitialized]_vars

\* C24: at most one inactivity timer is pending at any time, and it is the one
\* this.activityTimer names, after any sequence of interaction events, timer
\* firings, logins and logouts.
C24_OneTimer ==
  /\ Cardinality(timers) <= 1
  /\ timers \subseteq {activityTimer}

\* an interaction event that cancelled a timer still pending and left only
\* the one it scheduled
C24_Witness ==
  /\ ev.op = "updateActivity"
  /\ ev.arg > now
  /\ ev.arg # activityTimer
  /\ timers = {now + InactivityMs}
  /\ appState.isAuthenticated

\* C25: while the theme is 'system' the dark class equals the prefers-dark
\* signal once a theme has been applied, and follows every change event of the
\* signal; while the theme is 'light' or 'dark' the dark class is the theme's
\* own, a change event never alters it, and it changes only in a step that
\* changes the theme (an explicit change or a logout).
C25_ThemeResolution ==
  /\ [](appState.theme # "system" => dark = (appState.theme = "dark"))
  /\ []((appState.theme = "system" /\ appState.isInitialized) => dark = prefersDark)
  /\ [][prefersDark' # prefersDark
          => /\ appState' = appState
             /\ dark' = (IF appState.theme = "system" THEN prefersDark' ELSE dark)]_vars
  /\ [][(appState.theme # "system" /\ dark' # dark)
          => appState'.theme # appState.theme]_vars
  /\ [][(ev'.op = "handleLogout" /\ ev'.result = "void")
          => appState'.theme = "system" /\ dark' = prefersDark']_vars

\* the system switched away from dark while the theme is 'dark': the page
\* stays dark
C25_Witness ==
  /\ ev.op = "prefersDarkChange"
  /\ appState.theme = "dark"
  /\ ~prefersDark
  /\ dark

\* C26: once the application is initialized and no operation is pending,
\* appState.isAuthenticated is true exactly when authService.isAuthenticated()
\* is, that is when a token and a user are persisted.
C26_FlagAgreesWithStore ==
  (pc = Idle /\ appState.isInitialized /\ ~isAuthenticatedThrows(store))
    => appState.isAuthenticated = isAuthenticated(store)

\* C27: the persisted token and the persisted user are present together or
\* absent together, under every interleaving of login, signup, logout and
\* refreshAuthToken.
C27_TokenAndUserTogether ==
  (store[TOKEN_KEY] = Null) = (store[USER_KEY] = Null)

\* C28: after a successful login or signup the persisted refresh token is the
\* one that response delivered, and none is persisted when it delivered none.
C28_RefreshTokenOfThisSession ==
  [][(/\ ev'.op \in {"login", "signup"} /\ ev'.result = "success"
      /\ ev'.resp.token \in Tokens /\ ev'.resp.user \in Users)
       => store'[REFRESH_TOKEN_KEY] =
            (IF ev'.resp.refreshToken # Undefined THEN ev'.resp.refreshToken ELSE Null)]_vars

\* C29: login and signup persist credentials and report success only for a
\* success envelope that carries a token and a user; for a success envelope
\* missing either, the persisted keys stay as they were and failure is reported.
C29_SuccessNeedsTokenAndUser ==
  [][(/\ ev'.op \in {"login", "signup"} /\ ev'.result \in {"success", "failure"}
      /\ ~(ev'.resp.token \in Tokens /\ ev'.resp.user \in Users))
       => /\ ev'.result = "failure"
          /\ store' = store]_vars

\* C30: after cleanup() no inactivity timer is pending, interaction events no
\* longer change the last-activity timestamp, and no logout is forced.
C30_NothingAfterCleanup ==
  /\ [](cleaned => timers = {})
  /\ [][cleaned => /\ appState'.lastActivity = appState.lastActivity
                   /\ ~(ev'.op = "activityTimer" /\ ev'.result = "expired")]_vars
====
